---- MODULE Spec2Model ----
(***************************************************************************)
(* Model of hbc.js, the hierarchical bundling chart: the data pipeline     *)
(* (getGroups, getGroupPairs, aggregateByCol, sortBy, getNodes, getLinks)  *)
(* as operators computed the way the code computes them, and the chart's   *)
(* event-driven part (invocation, render passes, data-fetch callbacks,     *)
(* hover highlighting, tooltips) as actions.                               *)
(*                                                                         *)
(* A JavaScript string is a sequence of one-character strings, so that the *)
(* comma join of a composite key and the split(",") of getLinks are real   *)
(* operations.  A node is identified by its position in the list returned  *)
(* by cluster.nodes (object identity); 0 stands for undefined.             *)
(***************************************************************************)
EXTENDS Integers, Sequences, FiniteSets, TLC

\* ------------------------------------------------------------------ bounds
\* Largest number of records of a dataset.
MaxRecords == 3
\* Largest number of invocations of hierarchicalBundlingChart on one page.
MaxCharts == 2
\* Largest number of render passes (initial and resize-triggered) in a run.
MaxPasses == 3

\* ----------------------------------------------------------------- strings
ColA == <<"A">>
ColB == <<"B">>
SalesAmount == <<"s", "a", "l", "e", "s", "A", "m", "o", "u", "n", "t">>
ColZ == <<"Z">>
EmptyStr == <<>>
EmptyList == <<>>
ValX == <<"x">>
ValY == <<"y">>
ValPQ == <<"p", ",", "q">>

\* UTF-16 code unit of the characters that occur in keys.
CharCode(ch) ==
  CASE ch = "," -> 44 [] ch = "1" -> 49 [] ch = "2" -> 50
    [] ch = "A" -> 65 [] ch = "B" -> 66 [] ch = "Z" -> 90
    [] ch = "a" -> 97 [] ch = "e" -> 101 [] ch = "l" -> 108 [] ch = "m" -> 109
    [] ch = "n" -> 110 [] ch = "o" -> 111 [] ch = "p" -> 112 [] ch = "q" -> 113
    [] ch = "s" -> 115 [] ch = "t" -> 116 [] ch = "u" -> 117
    [] ch = "x" -> 120 [] ch = "y" -> 121

\* JavaScript's a < b on strings: lexicographic on code units.
RECURSIVE StrLess(_, _)
StrLess(a, b) ==
  IF b = <<>> THEN FALSE
  ELSE IF a = <<>> THEN TRUE
  ELSE IF CharCode(Head(a)) # CharCode(Head(b))
       THEN CharCode(Head(a)) < CharCode(Head(b))
       ELSE StrLess(Tail(a), Tail(b))

\* Array.prototype.join / String(array): the parts separated by commas.
RECURSIVE Join(_)
Join(parts) ==
  IF parts = <<>> THEN <<>>
  ELSE IF Len(parts) = 1 THEN parts[1]
  ELSE parts[1] \o <<",">> \o Join(Tail(parts))

\* String.prototype.split(","): the pieces between the commas.
RECURSIVE SplitFrom(_, _)
SplitFrom(cur, rest) ==
  IF rest = <<>> THEN <<cur>>
  ELSE IF Head(rest) = "," THEN <<cur>> \o SplitFrom(<<>>, Tail(rest))
  ELSE SplitFrom(Append(cur, Head(rest)), Tail(rest))

Split(s) == SplitFrom(<<>>, s)

\* parseInt of a string of decimal digits.
RECURSIVE ParseDigits(_, _)
ParseDigits(acc, s) ==
  IF s = <<>> THEN acc
  ELSE ParseDigits(10 * acc + (CharCode(Head(s)) - 48), Tail(s))

parseInt(s) == ParseDigits(0, s)

\* ---------------------------------------------------------------- the data
\* Array.prototype.indexOf, 0-based, -1 when absent.
RECURSIVE IndexFrom(_, _, _)
IndexFrom(arr, x, i) ==
  IF i > Len(arr) THEN -1
  ELSE IF arr[i] = x THEN i - 1
  ELSE IndexFrom(arr, x, i + 1)

indexOf(arr, x) == IndexFrom(arr, x, 1)

\* Array.prototype.splice(start, 1): a negative start counts from the end.
splice1(arr, start) ==
  LET n == Len(arr)
      s == IF start < 0 THEN (IF n + start < 0 THEN 0 ELSE n + start)
           ELSE (IF start > n THEN n ELSE start)
  IN  [i \in 1..(IF s < n THEN n - 1 ELSE n) |->
         IF i <= s THEN arr[i] ELSE arr[i + 1]]

Range(s) == {s[i] : i \in 1..Len(s)}

\* JavaScript undefined as the return value of getGroups.
Undefined == << <<"undefined">> >>

Max(S) == CHOOSE m \in S : \A x \in S : x <= m

VARIABLES
  styles,     \* the merged configuration (lines 11-40), fixed per invocation
  data,       \* the JSON document behind jsonUrl: a sequence of records
  pc,         \* position in the data pipeline of lines 161-162
  groups,     \* result of getGroups(data)
  nodes,      \* result of cluster.nodes(getNodes(data))
  links,      \* result of getLinks(data, nodes)
  charts,     \* number of invocations of hierarchicalBundlingChart so far
  listeners,  \* the window's "resize" listeners, in registration order
  passes,     \* the render passes started so far; a pass is known by its position
  container,  \* per chart, the svg elements in its parent node (an svg is known
              \* by the pass that created it)
  dom,        \* per svg, attached or not, the elements appended below it
  body,       \* the div.tooltip elements in the document body
  tooltipDiv, \* per pass, the tooltipDiv variable of its two tooltip closures
  lastEvt,    \* per pass, the last pointer event its handlers handled
  lastResolved,\* per chart, the pass whose fetch callback ran last (0: none yet)
  lastEntered,\* the entity of the last pointer-enter event
  purgedLost, \* whether the last pointer-enter found a lost tooltip to clean up
  hovering    \* whether the pointer is still over that entity: TRUE from its
              \* pointer-enter until its pointer-leave is delivered

\* A record is [keys |-> its column names in key order, get |-> column -> cell].
ObjectKeys(d) == d.keys

\* ------------------------------------------------------- Group & pair deriver
RECURSIVE RemoveExcept(_, _)
RemoveExcept(grps, except) ==
  IF except = <<>> THEN grps
  ELSE RemoveExcept(splice1(grps, indexOf(grps, Head(except))), Tail(except))

getGroups(dat) ==
  IF Len(styles.groupColNames) > 0 THEN styles.groupColNames
  ELSE IF Len(styles.groupColNamesAllExcept) > 0
       THEN RemoveExcept(ObjectKeys(dat[1]), styles.groupColNamesAllExcept)
       ELSE Undefined

RECURSIVE PairsFrom(_, _, _)
PairsFrom(grps, i, j) ==
  IF i > Len(grps) - 1 THEN <<>>
  ELSE IF j > Len(grps) THEN PairsFrom(grps, i + 1, i + 2)
  ELSE << <<grps[i], grps[j]>> >> \o PairsFrom(grps, i, j + 1)

getGroupPairs(dat) == PairsFrom(getGroups(dat), 1, 2)

isInGroupColNames(col) ==
  IF Len(styles.groupColNames) >= 1
  THEN indexOf(styles.groupColNames, col) >= 0
  ELSE indexOf(styles.groupColNamesAllExcept, col) < 0

\* ------------------------------------------------------------------ Aggregator
\* The nest key of a record: colName is a sequence of columns; for a single
\* column (the isString branch) the key is the cell itself.
nestKey(colName, d) == Join([i \in 1..Len(colName) |-> d.get[colName[i]]])

\* d3.nest groups in the order in which each key is first seen.
RECURSIVE FirstSeen(_, _, _)
FirstSeen(colName, dat, acc) ==
  IF dat = <<>> THEN acc
  ELSE LET k == nestKey(colName, Head(dat))
       IN  FirstSeen(colName, Tail(dat),
                     IF k \in Range(acc) THEN acc ELSE Append(acc, k))

RECURSIVE d3sum(_, _)
d3sum(leaves, col) ==
  IF leaves = <<>> THEN 0
  ELSE parseInt(Head(leaves).get[col]) + d3sum(Tail(leaves), col)

\* Mutant of rollup: the count is one short.
rollupOffByOne(leaves, rollupColName) ==
  IF rollupColName = EmptyStr THEN Len(leaves) - 1 ELSE d3sum(leaves, rollupColName)

rollup(leaves, rollupColName) ==
  IF rollupColName = EmptyStr THEN Len(leaves) ELSE d3sum(leaves, rollupColName)

aggregateByCol(colName, dat, rollupColName) ==
  LET ks == FirstSeen(colName, dat, <<>>)
  IN  [i \in 1..Len(ks) |->
        [key |-> ks[i],
         values |-> rollup(SelectSeq(dat, LAMBDA d : nestKey(colName, d) = ks[i]),
                           rollupColName)]]

\* --------------------------------------------------------------------- sorting
\* b[key] > a[key]: numbers for "values", strings for "key".
Greater(key, b, a) ==
  IF key = "values" THEN b.values > a.values ELSE StrLess(a.key, b.key)

\* Mutant of sortBy: the comparison the other way round.
sortByReversed(key, a, b) ==
  IF Greater(key, a, b) THEN styles.sort
  ELSE IF b[key] = a[key] THEN 0
  ELSE -styles.sort

sortBy(key, a, b) ==
  IF Greater(key, b, a) THEN styles.sort
  ELSE IF b[key] = a[key] THEN 0
  ELSE -styles.sort

\* Array.prototype.sort with the comparator sortBy(key): a stable sort.
RECURSIVE InsertSorted(_, _, _)
InsertSorted(sorted, x, key) ==
  IF sorted = <<>> THEN <<x>>
  ELSE IF sortBy(key, Head(sorted), x) > 0 THEN <<x>> \o sorted
  ELSE <<Head(sorted)>> \o InsertSorted(Tail(sorted), x, key)

RECURSIVE SortFrom(_, _, _)
SortFrom(arr, key, acc) ==
  IF arr = <<>> THEN acc
  ELSE SortFrom(Tail(arr), key, InsertSorted(acc, Head(arr), key))

ArraySort(arr, key) == SortFrom(arr, key, <<>>)

\* JSON.parse(JSON.stringify(obj)): a structural copy of strings, integers and
\* arrays; values have no identity here, so the copy is the value itself.
copyObj(obj) == obj

\* ---------------------------------------------------- Hierarchy & link builder
\* Mutant of getNodes: every group column aggregated by the first one.
getNodesFirstColumn(dat) ==
  LET grps == getGroups(dat)
      rootValues ==
        [i \in 1..Len(grps) |->
          [key |-> grps[i],
           values |-> ArraySort(aggregateByCol(<<grps[1]>>, dat, styles.rollupColName),
                                "values")]]
  IN  [key |-> EmptyStr, values |-> copyObj(ArraySort(rootValues, "key"))]

getNodes(dat) ==
  LET grps == getGroups(dat)
      rootValues ==
        [i \in 1..Len(grps) |->
          [key |-> grps[i],
           values |-> ArraySort(aggregateByCol(<<grps[i]>>, dat, styles.rollupColName),
                                "values")]]
  IN  [key |-> EmptyStr, values |-> copyObj(ArraySort(rootValues, "key"))]

\* cluster.nodes(root): the nodes in pre-order, each with its parent (a
\* position in the list, 0 for none); children are d.values unless it is an
\* integer, and a node without children is a leaf.
RECURSIVE FlattenGroups(_, _)
FlattenGroups(gs, base) ==
  IF gs = <<>> THEN <<>>
  ELSE LET g == Head(gs)
           gi == base + 1
           lvs == [j \in 1..Len(g.values) |->
                    [key |-> g.values[j].key, parent |-> gi, depth |-> 2,
                     values |-> g.values[j].values, children |-> FALSE]]
       IN  <<[key |-> g.key, parent |-> 1, depth |-> 1, values |-> 0,
              children |-> TRUE]>>
           \o lvs \o FlattenGroups(Tail(gs), gi + Len(lvs))

clusterNodes(root) ==
  <<[key |-> root.key, parent |-> 0, depth |-> 0, values |-> 0,
     children |-> root.values # <<>>]>>
  \o FlattenGroups(root.values, 1)

isLeafNode(n) == ~n.children

isGroupColNode(ns, n) ==
  n.parent # 0 /\ ns[n.parent].key = EmptyStr /\ isInGroupColNames(n.key)

\* mapNameNode[name] after nodes.forEach: the last node with that key, or
\* undefined (0).
mapNameNode(ns, name) ==
  LET hits == {i \in 1..Len(ns) : ns[i].key = name}
  IN  IF hits = {} THEN 0 ELSE Max(hits)

\* namePair[i] of the JavaScript array (0-based); a missing element is
\* undefined, which as a property name reads "undefined".
At(namePair, i) ==
  IF i + 1 <= Len(namePair) THEN namePair[i + 1] ELSE <<"undefined">>

\* The links pushed by the inner forEach for one group-column pair.
linksOfPair(pair, dat, ns) ==
  LET linksByNames == aggregateByCol(pair, dat, styles.rollupColName)
  IN  [k \in 1..Len(linksByNames) |->
        LET namePair == Split(linksByNames[k].key)
        IN  [source |-> mapNameNode(ns, At(namePair, 0)),
             target |-> mapNameNode(ns, At(namePair, 1)),
             value |-> linksByNames[k].values]]

RECURSIVE LinksOfPairs(_, _, _)
LinksOfPairs(pairs, dat, ns) ==
  IF pairs = <<>> THEN <<>>
  ELSE linksOfPair(Head(pairs), dat, ns) \o LinksOfPairs(Tail(pairs), dat, ns)

getLinks(dat, ns) == LinksOfPairs(getGroupPairs(dat), dat, ns)

\* ---------------------------------------------------------- input domains
Schemas == { <<ColA, SalesAmount, ColB>>, <<ColA, ColB>> }

CellsOf(col) ==
  IF col = ColA THEN {ValX, ValY}
  ELSE IF col = ColB THEN {ValX, ValPQ}
  ELSE {<<"1">>, <<"2">>}

RecordsOf(schema) ==
  {[keys |-> schema, get |-> g] :
     g \in {f \in [Range(schema) -> {ValX, ValY, ValPQ, <<"1">>, <<"2">>}] :
              \A c \in Range(schema) : f[c] \in CellsOf(c)}}

RECURSIVE SeqsUpTo(_, _)
SeqsUpTo(S, n) ==
  IF n = 0 THEN {<<>>}
  ELSE LET shorter == SeqsUpTo(S, n - 1)
       IN  shorter \cup {Append(s, x) : s \in {t \in shorter : Len(t) = n - 1}, x \in S}

\* Non-empty datasets with a uniform schema.
Datasets ==
  UNION {SeqsUpTo(RecordsOf(schema), MaxRecords) \ {<<>>} : schema \in Schemas}

DefaultExcept == <<SalesAmount>>

\* The exclude-list is read only while the include-list is empty, so it is
\* varied only then.
StylesSet ==
  {[sort |-> s, rollupColName |-> r, groupColNames |-> l[1],
    groupColNamesAllExcept |-> l[2]] :
     s \in {1, -1, 0}, r \in {EmptyStr, SalesAmount},
     l \in {<<EmptyList, DefaultExcept>>, <<EmptyList, EmptyList>>,
            <<EmptyList, <<ColZ, SalesAmount>>>>,
            <<<<ColB, ColA>>, DefaultExcept>>,
            <<<<ColB, SalesAmount, ColA>>, DefaultExcept>>}}

\* ------------------------------------------------- the data pipeline, stepwise
dvars == <<styles, data, pc, groups, nodes, links>>
uvars == <<charts, listeners, passes, container, dom, body, tooltipDiv, lastEvt,
           lastResolved, lastEntered, purgedLost, hovering>>
vars == <<dvars, uvars>>

NoEntity == [by |-> 0, kind |-> "none", n |-> 0]
NoEvent == [type |-> "none", ent |-> NoEntity]

\* The chart part at rest: nothing invoked yet.
UIIdle ==
  /\ charts = 0
  /\ listeners = <<>>
  /\ passes = <<>>
  /\ container = [c \in 1..MaxCharts |-> <<>>]
  /\ dom = <<>>
  /\ body = {}
  /\ tooltipDiv = <<>>
  /\ lastEvt = <<>>
  /\ lastResolved = [c \in 1..MaxCharts |-> 0]
  /\ lastEntered = NoEntity
  /\ purgedLost = FALSE
  /\ hovering = FALSE

InitData ==
  /\ styles \in StylesSet
  /\ data \in Datasets
  /\ (styles.rollupColName # EmptyStr => SalesAmount \in Range(ObjectKeys(data[1])))
  /\ Range(styles.groupColNames) \subseteq Range(ObjectKeys(data[1]))
  /\ pc = "start"
  /\ groups = <<>>
  /\ nodes = <<>>
  /\ links = <<>>
  /\ UIIdle

CallGetGroups ==
  /\ pc = "start"
  /\ groups' = getGroups(data)
  /\ pc' = "groups"
  /\ UNCHANGED <<styles, data, nodes, links, uvars>>

\* groups.forEach on undefined is a TypeError.
CallGetNodes ==
  /\ pc = "groups"
  /\ IF groups = Undefined
     THEN pc' = "threw" /\ UNCHANGED nodes
     ELSE pc' = "nodes" /\ nodes' = clusterNodes(getNodes(data))
  /\ UNCHANGED <<styles, data, groups, links, uvars>>

CallGetLinks ==
  /\ pc = "nodes"
  /\ links' = getLinks(data, nodes)
  /\ pc' = "links"
  /\ UNCHANGED <<styles, data, groups, nodes, uvars>>

NextData == CallGetGroups \/ CallGetNodes \/ CallGetLinks

SpecData == InitData /\ [][NextData]_vars

\* ------------------------------------------------------ claims on the data
GroupNodes == {i \in 1..Len(nodes) : nodes[i].depth = 1}
LeavesUnder(g) == {i \in 1..Len(nodes) : nodes[i].depth = 2 /\ nodes[i].parent = g}
ColumnValues(col) == {data[r].get[col] : r \in 1..Len(data)}

RECURSIVE SumValues(_)
SumValues(entries) ==
  IF entries = <<>> THEN 0 ELSE Head(entries).values + SumValues(Tail(entries))

\* Number of links getLinks emits before those of the p-th pair.
RECURSIVE LinkOffset(_)
LinkOffset(p) ==
  IF p = 1 THEN 0
  ELSE LinkOffset(p - 1)
       + Len(aggregateByCol(getGroupPairs(data)[p - 1], data, styles.rollupColName))

\* The links of the p-th pair, as they stand in the list getLinks returned.
LinksFor(p) ==
  LET n == Len(aggregateByCol(getGroupPairs(data)[p], data, styles.rollupColName))
      off == LinkOffset(p)
  IN  [k \in 1..n |-> links[off + k]]

\* The columns of the first record that are not named in the exclude-list.
ColumnsNotExcluded ==
  SelectSeq(ObjectKeys(data[1]),
            LAMBDA c : c \notin Range(styles.groupColNamesAllExcept))

IsLeafOf(n, col, val) ==
  /\ n # 0
  /\ isLeafNode(nodes[n])
  /\ nodes[n].key = val
  /\ nodes[n].parent # 0
  /\ nodes[nodes[n].parent].key = col

\* C2 (as claimed): for every group-column pair (c1, c2) and every record, the
\* link emitted for the record's value pair (v1, v2) has as source the leaf v1
\* under c1 and as target the leaf v2 under c2.
C2_LinkEndpointsAsClaimed ==
  pc = "links" =>
    \A p \in 1..Len(getGroupPairs(data)) : \A r \in 1..Len(data) :
      LET pair == getGroupPairs(data)[p]
          entries == aggregateByCol(pair, data, styles.rollupColName)
          k == CHOOSE i \in 1..Len(entries) : entries[i].key = nestKey(pair, data[r])
          l == LinksFor(p)[k]
      IN  /\ IsLeafOf(l.source, pair[1], data[r].get[pair[1]])
          /\ IsLeafOf(l.target, pair[2], data[r].get[pair[2]])

\* C4: in count mode the values of the entries aggregateByCol returns, for a
\* group column or a pair of them, sum to the number of records, and so do
\* the values of the links getLinks emitted for each pair.
C4_CountConservation ==
  (pc = "links" /\ styles.rollupColName = EmptyStr) =>
    LET pairs == getGroupPairs(data)
    IN  /\ \A i \in 1..Len(groups) :
             SumValues(aggregateByCol(<<groups[i]>>, data, styles.rollupColName))
               = Len(data)
        /\ \A p \in 1..Len(pairs) :
             LET ls == LinksFor(p)
             IN  /\ SumValues(aggregateByCol(pairs[p], data, styles.rollupColName))
                      = Len(data)
                 /\ SumValues([k \in 1..Len(ls) |-> [values |-> ls[k].value]])
                      = Len(data)

\* Count mode, three records, a pair with two links of which one stands for
\* two records.
C4_Witness ==
  /\ pc = "links"
  /\ styles.rollupColName = EmptyStr
  /\ Len(data) = 3
  /\ Len(getGroupPairs(data)) >= 1
  /\ Len(LinksFor(1)) = 2
  /\ \E k \in 1..2 : LinksFor(1)[k].value = 2

\* Positions of the group-column nodes and of the leaves of one, in list order.
RECURSIVE SeqOfSet(_)
SeqOfSet(S) ==
  IF S = {} THEN <<>>
  ELSE LET m == CHOOSE x \in S : \A y \in S : x <= y
       IN  <<m>> \o SeqOfSet(S \ {m})

GroupNodeKeys == [i \in 1..Cardinality(GroupNodes) |-> nodes[SeqOfSet(GroupNodes)[i]].key]
LeafEntries(g) ==
  [i \in 1..Cardinality(LeavesUnder(g)) |->
     [key |-> nodes[SeqOfSet(LeavesUnder(g))[i]].key,
      values |-> nodes[SeqOfSet(LeavesUnder(g))[i]].values]]

\* C5: with sort = 1 the leaves of every group-column node are in
\* non-increasing order of value and the group-column nodes in non-increasing
\* order of key; with sort = -1 both are non-decreasing; with sort = 0 the
\* leaves are in first-seen order, the group-column nodes in the order of
\* getGroups, and sorting again changes nothing.
C5_SortOrder ==
  pc = "nodes" =>
    /\ styles.sort = 1 =>
         /\ \A g \in GroupNodes : \A i, j \in LeavesUnder(g) :
              i < j => nodes[i].values >= nodes[j].values
         /\ \A g, h \in GroupNodes : g < h => ~StrLess(nodes[g].key, nodes[h].key)
    /\ styles.sort = -1 =>
         /\ \A g \in GroupNodes : \A i, j \in LeavesUnder(g) :
              i < j => nodes[i].values <= nodes[j].values
         /\ \A g, h \in GroupNodes : g < h => ~StrLess(nodes[h].key, nodes[g].key)
    /\ styles.sort = 0 =>
         /\ GroupNodeKeys = groups
         /\ \A g \in GroupNodes :
              /\ [i \in 1..Len(LeafEntries(g)) |-> LeafEntries(g)[i].key]
                   = FirstSeen(<<nodes[g].key>>, data, <<>>)
              /\ ArraySort(LeafEntries(g), "values") = LeafEntries(g)
         /\ ArraySort([i \in 1..Len(GroupNodeKeys) |-> [key |-> GroupNodeKeys[i]]], "key")
              = [i \in 1..Len(GroupNodeKeys) |-> [key |-> GroupNodeKeys[i]]]

\* sort = 1, and both sorts had to move something: a group whose first-seen
\* value has the smaller aggregate, and group columns derived in ascending
\* key order.
C5_Witness ==
  /\ pc = "nodes"
  /\ styles.sort = 1
  /\ Len(groups) >= 2
  /\ StrLess(groups[1], groups[2])
  /\ \E g \in GroupNodes :
       LET first == FirstSeen(<<nodes[g].key>>, data, <<>>)
       IN  /\ Len(first) = 2
           /\ LeafEntries(g)[1].key = first[2]
           /\ LeafEntries(g)[1].values > LeafEntries(g)[2].values

\* C6: the hierarchy has one group-column node per derived group column, and
\* the leaf keys under the node of column c are exactly the distinct values
\* of c in the dataset, each once.
C6_LeavesAreDistinctValues ==
  pc = "nodes" =>
    /\ Cardinality(GroupNodes) = Len(groups)
    /\ \A c \in Range(groups) :
         Cardinality({g \in GroupNodes : nodes[g].key = c})
           = Cardinality({i \in 1..Len(groups) : groups[i] = c})
    /\ \A g \in GroupNodes :
         /\ {nodes[i].key : i \in LeavesUnder(g)} = ColumnValues(nodes[g].key)
         /\ Cardinality(LeavesUnder(g)) = Cardinality(ColumnValues(nodes[g].key))
    /\ \A i \in 1..Len(nodes) : nodes[i].depth = 2 => nodes[i].parent \in GroupNodes

\* Three records, two group columns, a value that occurs twice in its column
\* beside another one.
C6_Witness ==
  /\ pc = "nodes"
  /\ Len(data) = 3
  /\ Len(groups) = 2
  /\ \E g \in GroupNodes :
       /\ Cardinality(LeavesUnder(g)) = 2
       /\ \E i \in LeavesUnder(g) : nodes[i].values = 2

\* ------------------------------------------------------------------ the chart
ValP == <<"p">>
ValQ == <<"q">>

\* The defaults of lines 11-36 that the data pipeline reads.
DefaultStyles ==
  [sort |-> 1, rollupColName |-> EmptyStr, groupColNames |-> EmptyList,
   groupColNamesAllExcept |-> DefaultExcept]

Rec(a, b) ==
  [keys |-> <<ColA, SalesAmount, ColB>>,
   get |-> (ColA :> a) @@ (SalesAmount :> <<"1">>) @@ (ColB :> b)]

\* The documents the chart is run on: two columns without a common value,
\* the value x in both columns, and a value that contains a comma.
Plain == <<Rec(ValY, ValP), Rec(ValY, ValQ)>>
Colliding == <<Rec(ValX, ValX), Rec(ValY, ValX)>>
WithComma == <<Rec(ValY, ValX), Rec(ValY, ValPQ)>>
UIDatasets == {Plain, Colliding, WithComma}

Indices(sq) == [i \in 1..Len(sq) |-> i]
Last(sq) == sq[Len(sq)]

\* selection.on(type, listener) of d3: a listener registered under the same
\* type and namespace is removed before the new one is added.
on(ls, typename, chart) ==
  SelectSeq(ls, LAMBDA l : l.name # typename) \o <<[name |-> typename, chart |-> chart]>>

\* The state render() reads and writes.
RenderState ==
  [passes |-> passes, container |-> container, dom |-> dom,
   tooltipDiv |-> tooltipDiv, lastEvt |-> lastEvt]

\* The pass record of a render pass for chart c: its fetch is in flight.
NewPass(st, c) == [chart |-> c, state |-> "pending"]

\* Mutant of render: the svg elements already in the parent node are kept.
renderKeepSvg(st, c) ==
  LET id == Len(st.passes) + 1
  IN  [passes |-> Append(st.passes, NewPass(st, c)),
       container |-> [st.container EXCEPT ![c] = Append(@, id)],
       dom |-> Append(st.dom, <<>>),
       tooltipDiv |-> Append(st.tooltipDiv, ("node" :> 0) @@ ("node-bar" :> 0)),
       lastEvt |-> Append(st.lastEvt, NoEvent)]

\* render() up to the d3.json call: every svg in the parent node is removed, a
\* new one is appended, and a fetch is started whose callback closes over the
\* new svg's (still empty) selections.
\* No event reaches an element of a removed svg any more, so nothing can read
\* or change the classes of its elements or run the handlers of its pass:
\* of a removed svg only the elements and who appended them are kept.
render(st, c) ==
  LET id == Len(st.passes) + 1
      gone == Range(st.container[c])
  IN  [passes |-> Append(st.passes, NewPass(st, c)),
       container |-> [st.container EXCEPT ![c] = <<id>>],
       dom |-> Append([sv \in DOMAIN st.dom |->
                         IF sv \in gone
                         THEN [i \in DOMAIN st.dom[sv] |->
                                 [st.dom[sv][i] EXCEPT !.cls = {}]]
                         ELSE st.dom[sv]],
                      <<>>),
       tooltipDiv |-> Append([sv \in DOMAIN st.tooltipDiv |->
                                IF sv \in gone THEN ("node" :> 0) @@ ("node-bar" :> 0)
                                ELSE st.tooltipDiv[sv]],
                             ("node" :> 0) @@ ("node-bar" :> 0)),
       lastEvt |-> Append([sv \in DOMAIN st.lastEvt |->
                             IF sv \in gone THEN NoEvent ELSE st.lastEvt[sv]],
                          NoEvent)]

\* The resize event: every registered listener runs, in registration order.
RECURSIVE RenderAll(_, _)
RenderAll(st, ls) ==
  IF ls = <<>> THEN st ELSE RenderAll(render(st, Head(ls).chart), Tail(ls))

SetRenderState(st) ==
  /\ passes' = st.passes
  /\ container' = st.container
  /\ dom' = st.dom
  /\ tooltipDiv' = st.tooltipDiv
  /\ lastEvt' = st.lastEvt

\* hierarchicalBundlingChart(parentNodeSelector, jsonUrl, userStyles): the
\* k-th invocation draws into the k-th parent node.
Invoke ==
  /\ charts < MaxCharts
  /\ Len(passes) < MaxPasses
  /\ charts' = charts + 1
  /\ SetRenderState(render(RenderState, charts + 1))
  /\ listeners' = on(listeners, "resize.hbc", charts + 1)
  /\ UNCHANGED <<dvars, body, lastResolved, lastEntered, purgedLost, hovering>>

Resize ==
  /\ listeners # <<>>
  /\ Len(passes) + Len(listeners) <= MaxPasses
  /\ SetRenderState(RenderAll(RenderState, listeners))
  /\ UNCHANGED <<dvars, charts, listeners, body, lastResolved, lastEntered, purgedLost, hovering>>

\* Mutant of callbackSvg: the svg is looked up in the parent node when the
\* callback runs.
callbackSvgCurrent(p) == Last(container[passes[p].chart])

\* The svg below which the callback of pass p appends: the one its render
\* pass created (link, node and nodeBar are selections of that svg's groups).
callbackSvg(p) == p

\* An element carries its datum: a link its two endpoint nodes (d.source and
\* d.target, lines 183-186), a text node or bar its node n of the pass's node
\* list, with that node's key and values; colname is class node-colname.
linkEls(p, ls) ==
  [i \in 1..Len(ls) |->
    [kind |-> "link", n |-> i, source |-> ls[i].source, target |-> ls[i].target,
     key |-> EmptyStr, values |-> ls[i].value, colname |-> FALSE, by |-> p,
     cls |-> {}]]

nodeEls(p, ns) ==
  LET shown == SelectSeq(Indices(ns),
                         LAMBDA i : isLeafNode(ns[i]) \/ isGroupColNode(ns, ns[i]))
  IN  [i \in 1..Len(shown) |->
        [kind |-> "node", n |-> shown[i], source |-> 0, target |-> 0,
         key |-> ns[shown[i]].key, values |-> ns[shown[i]].values,
         colname |-> isGroupColNode(ns, ns[shown[i]]), by |-> p, cls |-> {}]]

nodeBarEls(p, ns) ==
  LET shown == SelectSeq(Indices(ns), LAMBDA i : isLeafNode(ns[i]))
  IN  [i \in 1..Len(shown) |->
        [kind |-> "node-bar", n |-> shown[i], source |-> 0, target |-> 0,
         key |-> ns[shown[i]].key, values |-> ns[shown[i]].values,
         colname |-> FALSE, by |-> p, cls |-> {}]]

\* The d3.json callback with the document.  bundle(links) throws on a link
\* with an undefined endpoint, before anything is appended.
FetchDone(p) ==
  /\ passes[p].state = "pending"
  /\ LET ns == clusterNodes(getNodes(data))
         ls == getLinks(data, ns)
     IN  IF \E i \in 1..Len(ls) : ls[i].source = 0 \/ ls[i].target = 0
         THEN /\ passes' = [passes EXCEPT ![p].state = "threw"]
              /\ UNCHANGED dom
         ELSE /\ passes' = [passes EXCEPT ![p].state = "done"]
              /\ dom' = [dom EXCEPT ![callbackSvg(p)] =
                           @ \o linkEls(p, ls) \o nodeEls(p, ns) \o nodeBarEls(p, ns)]
  /\ lastResolved' = [lastResolved EXCEPT ![passes[p].chart] = p]
  /\ UNCHANGED <<dvars, charts, listeners, container, body, tooltipDiv, lastEvt,
                 lastEntered, purgedLost, hovering>>

\* The d3.json callback with an error: _data is undefined and getGroups
\* throws on data[0].
FetchError(p) ==
  /\ passes[p].state = "pending"
  /\ passes' = [passes EXCEPT ![p].state = "failed"]
  /\ lastResolved' = [lastResolved EXCEPT ![passes[p].chart] = p]
  /\ UNCHANGED <<dvars, charts, listeners, container, dom, body, tooltipDiv,
                 lastEvt, lastEntered, purgedLost, hovering>>

\* ------------------------------------------------------------- interaction
\* The elements of the document: those below an svg of a parent node.
InDocument ==
  UNION {Range(dom[sv]) : sv \in UNION {Range(container[c]) : c \in 1..MaxCharts}}

\* Text nodes of leaves and bars take pointer events; the text of a
\* group-column node has class node-colname, whose rule sets pointer-events
\* to none.
Hoverable ==
  {el \in InDocument : el.kind = "node-bar" \/ (el.kind = "node" /\ ~el.colname)}

Entity(el) == [by |-> el.by, kind |-> el.kind, n |-> el.n]

\* Every element appended so far, in the document or not.
AllEls == UNION {Range(dom[sv]) : sv \in DOMAIN dom}

\* The elements of the link, node and nodeBar selections of pass p.
linkSel(dm, p) ==
  {el \in UNION {Range(dm[sv]) : sv \in DOMAIN dm} : el.by = p /\ el.kind = "link"}
nodeSel(dm, p) ==
  {el \in UNION {Range(dm[sv]) : sv \in DOMAIN dm} : el.by = p /\ el.kind = "node"}

\* Mutant of linkClasses: the endpoints are compared with d by key.
linkClassesByKey(l, d, ks) ==
  (IF ks[l.target] = ks[d] THEN {"link-target"} ELSE {})
    \cup (IF ks[l.source] = ks[d] THEN {"link-source"} ELSE {})
    \cup (IF ks[l.target] # ks[d] /\ ks[l.source] # ks[d] THEN {"link-bg"} ELSE {})

\* The three classed() calls of mouseovered on a link l, with d the datum of
\* the entered element: the endpoints are compared with d as objects (ks, the
\* keys of the nodes, is not read).
linkClasses(l, d, ks) ==
  (IF l.target = d THEN {"link-target"} ELSE {})
    \cup (IF l.source = d THEN {"link-source"} ELSE {})
    \cup (IF l.target # d /\ l.source # d THEN {"link-bg"} ELSE {})

\* The three classed() calls on a text node or bar n; src and tgt are the
\* nodes whose source and target flags the link pass has set.
nodeClasses(n, d, ks, src, tgt) ==
  (IF n \in tgt THEN {"node-target"} ELSE {})
    \cup (IF n \in src THEN {"node-source"} ELSE {})
    \cup (IF n \notin tgt /\ n \notin src /\ ks[n] # ks[d] THEN {"node-bg"} ELSE {})

\* mouseovered(d) of pass p: the flags of the nodes are reset, then set from
\* the links, and the elements of the pass's own selections are restyled.
mouseovered(dm, p, d) ==
  LET lks == linkSel(dm, p)
      nds == nodeSel(dm, p)
      ks == [n \in {el.n : el \in nds} |->
               (CHOOSE el \in nds : el.n = n).key]
      src == {l.source : l \in {x \in lks : x.target = d}}
      tgt == {l.target : l \in {x \in lks : x.source = d}}
  IN  [sv \in DOMAIN dm |->
        [i \in DOMAIN dm[sv] |->
          LET el == dm[sv][i]
          IN  IF el.by # p THEN el
              ELSE IF el.kind = "link"
                   THEN [el EXCEPT !.cls = linkClasses(el, d, ks)]
                   ELSE [el EXCEPT !.cls = nodeClasses(el.n, d, ks, src, tgt)]]]

\* mouseouted of pass p: every modifier class is removed.
mouseouted(dm, p) ==
  [sv \in DOMAIN dm |->
    [i \in DOMAIN dm[sv] |->
      IF dm[sv][i].by = p THEN [dm[sv][i] EXCEPT !.cls = {}] ELSE dm[sv][i]]]

\* A tooltipDiv variable holds 0 (undefined), the id of a div of the body, or
\* Removed: a div that was removed from the body (it never returns there, so
\* the removed divs need not be told apart).
Removed == -1

Forget(refs, bd) ==
  [p \in DOMAIN refs |->
    [k \in DOMAIN refs[p] |->
      IF refs[p][k] > 0 /\ refs[p][k] \notin {t.id : t \in bd}
      THEN Removed ELSE refs[p][k]]]

FreshId(bd) ==
  CHOOSE i \in 1..(Cardinality(bd) + 1) : i \notin {t.id : t \in bd}

\* Mutant of purge: lost tooltips are not cleaned up.
purgeNothing(bd) == bd

\* rootSelection.selectAll('div.tooltip').remove()
purge(bd) == {}

\* pointer-enter on an element: mouseover.hbcNode, then mouseover.hbctooltip
\* of the closure of its pass and kind.
Enter(el) ==
  /\ el \in Hoverable
  /\ dom' = mouseovered(dom, el.by, el.n)
  /\ LET kept == purge(body)
         id == FreshId(kept)
     IN  /\ body' = kept \cup {[id |-> id, ent |-> Entity(el),
                                values |-> el.values]}
         /\ tooltipDiv' = [Forget(tooltipDiv, kept) EXCEPT ![el.by][el.kind] = id]
  /\ lastEvt' = [lastEvt EXCEPT ![el.by] = [type |-> "enter", ent |-> Entity(el)]]
  /\ lastEntered' = Entity(el)
  /\ purgedLost' = (body # {})
  /\ hovering' = TRUE
  /\ UNCHANGED <<dvars, charts, listeners, passes, container, lastResolved>>

\* pointer-leave from the element the pointer is over: mouseout.hbcNode, then
\* mouseout.hbctooltip (which throws when its tooltipDiv is still undefined).
\* An element that was removed from the document gets no event; a leave is
\* missed when the next pointer-enter comes first.
Leave(el) ==
  /\ el \in Hoverable
  /\ hovering
  /\ Entity(el) = lastEntered
  /\ dom' = mouseouted(dom, el.by)
  /\ LET kept == {t \in body : t.id # tooltipDiv[el.by][el.kind]}
     IN  /\ body' = kept
         /\ tooltipDiv' = Forget(tooltipDiv, kept)
  /\ lastEvt' = [lastEvt EXCEPT ![el.by] = [type |-> "leave", ent |-> NoEntity]]
  /\ hovering' = FALSE
  /\ purgedLost' = FALSE
  /\ UNCHANGED <<dvars, charts, listeners, passes, container, lastResolved,
                 lastEntered>>

\* A click on the background rect of an svg of the document, once the
\* callback of its pass has registered click.hbcrootg.
SheetClick(sv) ==
  /\ sv \in UNION {Range(container[c]) : c \in 1..MaxCharts}
  /\ passes[sv].state = "done"
  /\ dom' = mouseouted(dom, sv)
  /\ lastEvt' = [lastEvt EXCEPT ![sv] = [type |-> "click", ent |-> NoEntity]]
  /\ UNCHANGED <<dvars, charts, listeners, passes, container, body, tooltipDiv,
                 lastResolved, lastEntered, purgedLost, hovering>>

InitUI ==
  /\ styles = DefaultStyles
  /\ data \in UIDatasets
  /\ pc = "chart"
  /\ groups = <<>>
  /\ nodes = <<>>
  /\ links = <<>>
  /\ UIIdle

\* A page with several charts, without pointer events.
NextRender ==
  \/ Invoke
  \/ Resize
  \/ \E p \in 1..Len(passes) : FetchDone(p)
  \/ \E p \in 1..Len(passes) : FetchError(p)

SpecRender == InitUI /\ [][NextRender]_vars

\* A page with one chart, with its pointer events.
InvokeOnce == charts = 0 /\ Invoke

NextHover ==
  \/ InvokeOnce
  \/ Resize
  \/ \E p \in 1..Len(passes) : FetchDone(p)
  \/ \E p \in 1..Len(passes) : FetchError(p)
  \/ \E el \in Hoverable : Enter(el)
  \/ \E el \in Hoverable : Leave(el)
  \/ \E sv \in 1..Len(passes) : SheetClick(sv)

SpecHover == InitUI /\ [][NextHover]_vars

\* ---------------------------------------------------- claims on the chart
PassesOf(c) == {p \in 1..Len(passes) : passes[p].chart = c}
LatestPass(c) == Max(PassesOf(c))
PreviousPass(c) == Max(PassesOf(c) \ {LatestPass(c)})

\* The chart elements a viewer sees in the parent node of chart c.
Visible(c) == UNION {Range(dom[sv]) : sv \in Range(container[c])}

\* C7 (as claimed): every invocation adds a resize listener and none is ever
\* removed, so after k invocations k listeners are registered, one per chart.
C7_ListenersAccumulateAsClaimed ==
  /\ Len(listeners) = charts
  /\ \A c \in 1..charts : \E i \in 1..Len(listeners) : listeners[i].chart = c

\* C8: the parent node of a chart holds exactly one svg, the one of the
\* chart's most recently started render pass, and every element below it was
\* appended by the callback of that pass.
C8_OneSvgOfLatestPass ==
  \A c \in 1..charts :
    /\ container[c] = <<LatestPass(c)>>
    /\ \A el \in Visible(c) : el.by = LatestPass(c)

\* The callback of an earlier pass ran last, after the one of the latest
\* pass, and both appended their elements.
C8_Witness ==
  \E c \in 1..charts :
    /\ Cardinality(PassesOf(c)) >= 2
    /\ lastResolved[c] = PreviousPass(c)
    /\ passes[PreviousPass(c)].state = "done"
    /\ passes[LatestPass(c)].state = "done"
    /\ dom[PreviousPass(c)] # <<>>
    /\ Visible(c) # {}

\* Both the previous and the latest pass of chart c have appended their
\* elements, and one of the two callbacks was the last to run.
BothResolved(c) ==
  /\ Cardinality(PassesOf(c)) >= 2
  /\ passes[PreviousPass(c)].state = "done"
  /\ passes[LatestPass(c)].state = "done"
  /\ lastResolved[c] \in {PreviousPass(c), LatestPass(c)}

\* C9 (as claimed): once both callbacks have run, the content in the parent
\* node is the content of the callback that ran last.
C9_LastCallbackWinsAsClaimed ==
  \A c \in 1..charts :
    BothResolved(c) =>
      /\ Visible(c) # {}
      /\ \A el \in Visible(c) : el.by = lastResolved[c]

\* C9 (amended): the fetch of the previous pass is not cancelled and both
\* callbacks run; the content in the parent node afterwards is the content of
\* the newer pass, whichever callback ran last, and the elements of the older
\* pass are below its own svg, which is no longer in the parent node.
C9_NewerPassWins ==
  \A c \in 1..charts :
    BothResolved(c) =>
      /\ Visible(c) # {}
      /\ \A el \in Visible(c) : el.by = LatestPass(c)
      /\ dom[PreviousPass(c)] # <<>>
      /\ \A el \in Range(dom[PreviousPass(c)]) : el.by = PreviousPass(c)
      /\ PreviousPass(c) \notin Range(container[c])

\* The callback of the previous pass was the last to run.
C9_Witness ==
  \E c \in 1..charts : BothResolved(c) /\ lastResolved[c] = PreviousPass(c)

\* The key of node n of pass p.
KeyOfNode(p, n) == (CHOOSE el \in nodeSel(dom, p) : el.n = n).key

C10_AtMostOneTooltip ==
  /\ Cardinality(body) <= 1
  /\ \A t \in body : t.ent = lastEntered
  /\ ~hovering => body = {}

\* An entity is hovered whose pointer-enter cleaned up the tooltip of an
\* entity that never got its pointer-leave.
C10_Witness ==
  /\ hovering
  /\ purgedLost
  /\ Cardinality(body) = 1
====
